---- MODULE Spec2Model ----
(***************************************************************************)
(* Model of UnityMidiReceiver.cpp: the MIDI callback (producer threads),   *)
(* the handle vector, the message queue with its mutex, and the four       *)
(* exported functions called from one consumer thread.                     *)
(*                                                                         *)
(* The Windows multimedia API (midiInGetNumDevs, midiInOpen, midiInStart,  *)
(* midiInClose, midiInGetID, midiInGetDevCaps) is the environment: the set *)
(* number of plugged devices and the sessions open at the platform.         *)
(***************************************************************************)
EXTENDS Integers, Sequences, FiniteSets, TLC

(* ------------------------------ bounds -------------------------------- *)

\* Largest number of MIDI input devices plugged at the same time.
MaxDevs == 2

\* Largest number of MIM_DATA callbacks the platform delivers in one run.
MaxPush == 2

(* ------------------------- platform constants ------------------------- *)

\* wMsg values of mmsystem.h; the callback tests wMsg against MIM_DATA.
MIM_DATA == 963

\* The notifications the callback gets: MIM_DATA and, for one, MIM_LONGDATA.
Notifications == { MIM_DATA, 964 }

\* An HMIDIIN is a pointer: [hi, lo] are its upper and lower 32 bits
\* (hi = 0 on a 32 bit build).
NULL == [hi |-> 0, lo |-> 0]

HandleValues ==
    { [hi |-> 0, lo |-> 1], [hi |-> 0, lo |-> 2], [hi |-> 1, lo |-> 1] }

\* What an HMIDIIN local holds when midiInOpen failed and wrote nothing to it.
UninitializedHandles == HandleValues \cup {NULL}

\* dwParam1 word the platform passes with MIM_DATA: 0x017F3C90 (note on, key
\* 60, velocity 127, and a set byte 3 that the callback has to mask off).
RawParams == { 25115792 }

\* Values of the byte of the Message union that no constructor writes (byte 7).
PadBytes == { 0, 255 }

(* ------------------------------- state -------------------------------- *)

VARIABLES
    numDevs,            \* platform: number of plugged devices, slots 0 .. numDevs-1
    sessions,           \* platform: open (and started) sessions [h, slot]
    cb,                 \* in-flight MyMidiInProc invocations [h, pc, wMsg, dwParam1, inv]
    handles,            \* std::vector<HMIDIIN> handles
    messageQueue,       \* std::queue<Message> messageQueue
    messageQueueLock,   \* std::mutex messageQueueLock: [owner, h]
    build,              \* "any" until an assert() that failed was passed, then "ndebug"
    pc,                 \* consumer thread: position in the exported function
    op,                 \* consumer thread: exported function called last
    arg,                \* its argument
    ret,                \* its return value (NoRet while it runs)
    deviceCount,        \* ResetPluginIfRequired: int deviceCount
    i,                  \* ResetPluginIfRequired: loop position
    m,                  \* UnityMIDIReceiver_DequeueIncomingData: Message m
    \* history (ghost) variables, read by no action's guard
    pushCount,          \* number of completed pushes = tag of the last one
    base,               \* number of pushes completed before the last queue clear
    delivered,          \* tags of the events dequeue returned since that clear
    staleTags,          \* tags of queued events whose session has been closed
    refreshed,          \* the running/last call's refresh tore the sessions down
    dropped,            \* events the running/last call's refresh cleared
    quiet,              \* queue empty at the call and no push completed since
    prevIds,            \* ids of the registry the running call's teardown closed
    opened,             \* handles the last teardown's open loop registered
    replugged           \* a device was unplugged since the last teardown

platformVars == <<numDevs, sessions>>
producerVars == <<cb>>
consumerVars == <<pc, op, arg, ret, deviceCount, i, m>>
ghostVars    == <<pushCount, base, delivered, staleTags, refreshed,
                  dropped, quiet, prevIds, opened, replugged>>
vars == <<numDevs, sessions, cb, handles, messageQueue, messageQueueLock,
          build, pc, op, arg, ret, deviceCount, i, m,
          pushCount, delivered, base, staleTags, refreshed, dropped,
          quiet, prevIds, opened, replugged>>

(* ------------------------------ helpers ------------------------------- *)

Range(s) == { s[k] : k \in 1 .. Len(s) }

Unlocked == [owner |-> "none", h |-> NULL]
ConsumerThread == [owner |-> "consumer", h |-> NULL]
CallbackThread(h) == [owner |-> "callback", h |-> h]

NoRet == [none |-> TRUE]

(* --------------------- pure functions of the code --------------------- *)

\* ConvertHandle: reinterpret_cast<uint32_t>(handle) keeps the low 32 bits.
ConvertHandle(handle) == handle.lo

\* The shift without the mask: (x >> shift*8).
ByteOf_Unmasked(x, k) == x \div (256 ^ k)

\* (x >> shift*8) & 0xff
ByteOf(x, k) == (x \div (256 ^ k)) % 256

\* Message::Message(aSource, aStatus, aData1, aData2); tag, inv and from are
\* history fields (the push number, the number of the callback invocation
\* that built the event, and the pushing session's full handle).
Message(aSource, aStatus, aData1, aData2, aTag, aInv) ==
    [ source |-> ConvertHandle(aSource), status |-> aStatus,
      data1 |-> aData1, data2 |-> aData2, tag |-> aTag, inv |-> aInv,
      from |-> aSource ]

\* The struct written with status after data1: bytes 4 and 5 exchanged.
Uint64Value_Swapped(msg, pad) ==
    [ lo32 |-> msg.source, b4 |-> msg.data1, b5 |-> msg.status,
      b6 |-> msg.data2, b7 |-> pad ]

\* Message::uint64Value on a little-endian target: bytes 0-3 are source,
\* byte 4 status, byte 5 data1, byte 6 data2, byte 7 is never written.
Uint64Value(msg, pad) ==
    [ lo32 |-> msg.source, b4 |-> msg.status, b5 |-> msg.data1,
      b6 |-> msg.data2, b7 |-> pad ]

\* return 0 of a uint64_t function.
Zero64 == [ lo32 |-> 0, b4 |-> 0, b5 |-> 0, b6 |-> 0, b7 |-> 0 ]

\* What back() yields on an empty queue (undefined behaviour): no event.
GarbageMessage ==
    [ source |-> 0, status |-> 0, data1 |-> 0, data2 |-> 0, tag |-> 0,
      inv |-> 0, from |-> NULL ]

Tags(q) == [ k \in 1 .. Len(q) |-> q[k].tag ]

\* std::queue<Message>: push, back, front, pop, and the unsynchronised
\* empty().  back() and pop() of an empty queue are undefined behaviour.
QueuePush_Front(q, msg) == <<msg>> \o q
QueuePush(q, msg) == Append(q, msg)
QueueBack(q) == IF q = <<>> THEN GarbageMessage ELSE q[Len(q)]
QueueFront(q) == IF q = <<>> THEN GarbageMessage ELSE Head(q)
QueuePop(q) == IF q = <<>> THEN q ELSE Tail(q)

\* std::vector<HMIDIIN>: operator[] out of range reads memory past the end.
PastTheEnd == [hi |-> 1, lo |-> 3]

VectorAt(v, index) == IF index + 1 \in 1 .. Len(v) THEN v[index + 1] ELSE PastTheEnd

(* ------------------------------ platform ------------------------------ *)

\* midiInGetNumDevs()
midiInGetNumDevs == numDevs

OpenHandles == { s.h : s \in sessions }

Running == pc # "aborted"

\* A device is plugged: it takes the next slot.
Plug ==
    /\ numDevs < MaxDevs
    /\ numDevs' = numDevs + 1
    /\ UNCHANGED <<sessions, cb, handles, messageQueue, messageQueueLock, build>>
    /\ UNCHANGED consumerVars
    /\ UNCHANGED ghostVars

\* A device is unplugged: the slots above it move down.
Unplug ==
    /\ numDevs > 0
    /\ numDevs' = numDevs - 1
    /\ replugged' = TRUE
    /\ UNCHANGED <<sessions, cb, handles, messageQueue, messageQueueLock, build>>
    /\ UNCHANGED consumerVars
    /\ UNCHANGED <<pushCount, base, delivered, staleTags, refreshed, dropped, quiet, prevIds, opened>>

(* --------------------------- MyMidiInProc ----------------------------- *)

\* Line 48: if (wMsg == MIM_DATA)
IsShortData(wMsg) == wMsg = MIM_DATA

\* Number of MIM_DATA invocations the platform has made so far: those that
\* have pushed and those still before their push.
Invocations ==
    pushCount + Cardinality({ c \in cb : c.pc \in { "cb_lock", "cb_push" } })

\* Lines 46-52: the platform invokes MyMidiInProc(hMidiIn, wMsg, _, dwParam1, _)
\* for an open session, one invocation per session at a time; data comes only
\* from a slot that still has a device.  With MIM_DATA the callback goes on to
\* line 55; with any other notification it returns, having touched nothing.
CallbackEnter(s, wMsg, dwParam1) ==
    /\ Running
    /\ s \in sessions
    /\ \A c \in cb : c.h # s.h
    /\ wMsg = MIM_DATA =>
         /\ s.slot < numDevs
         /\ pushCount + Cardinality(cb) < MaxPush
    /\ cb' = IF IsShortData(wMsg)
             THEN cb \cup { [ h |-> s.h, pc |-> "cb_lock", wMsg |-> wMsg,
                              dwParam1 |-> dwParam1, inv |-> Invocations + 1 ] }
             ELSE cb
    /\ UNCHANGED <<numDevs, sessions, handles, messageQueue, messageQueueLock, build>>
    /\ UNCHANGED consumerVars
    /\ UNCHANGED ghostVars

\* Line 55: messageQueueLock.lock()
CallbackLock(c) ==
    /\ Running
    /\ c \in cb /\ c.pc = "cb_lock"
    /\ messageQueueLock = Unlocked
    /\ messageQueueLock' = CallbackThread(c.h)
    /\ cb' = (cb \ {c}) \cup { [c EXCEPT !.pc = "cb_push"] }
    /\ UNCHANGED <<numDevs, sessions, handles, messageQueue, build>>
    /\ UNCHANGED consumerVars
    /\ UNCHANGED ghostVars

\* Lines 50-52 and 56: the event MyMidiInProc builds from its parameters.
CallbackMessage(hMidiIn, dwParam1, aTag, aInv) ==
    Message(hMidiIn, ByteOf(dwParam1, 0), ByteOf(dwParam1, 1),
            ByteOf(dwParam1, 2), aTag, aInv)

\* Line 56: messageQueue.push(Message(hMidiIn, status, data1, data2))
CallbackPush(c) ==
    /\ Running
    /\ c \in cb /\ c.pc = "cb_push"
    /\ messageQueue' =
         QueuePush(messageQueue,
                   CallbackMessage(c.h, c.dwParam1, pushCount + 1, c.inv))
    /\ pushCount' = pushCount + 1
    /\ quiet' = FALSE
    /\ cb' = (cb \ {c}) \cup { [c EXCEPT !.pc = "cb_unlock"] }
    /\ UNCHANGED <<numDevs, sessions, handles, messageQueueLock, build>>
    /\ UNCHANGED consumerVars
    /\ UNCHANGED <<delivered, base, staleTags, refreshed, dropped, prevIds, opened, replugged>>

\* The unlock left out: the callback returns holding the lock.
CallbackUnlock_KeepsLock(c) ==
    /\ Running
    /\ c \in cb /\ c.pc = "cb_unlock"
    /\ cb' = cb \ {c}
    /\ UNCHANGED <<numDevs, sessions, handles, messageQueue, messageQueueLock, build>>
    /\ UNCHANGED consumerVars
    /\ UNCHANGED ghostVars

\* Lines 57-59: messageQueueLock.unlock() and return
CallbackUnlock(c) ==
    /\ Running
    /\ c \in cb /\ c.pc = "cb_unlock"
    /\ messageQueueLock' = Unlocked
    /\ cb' = cb \ {c}
    /\ UNCHANGED <<numDevs, sessions, handles, messageQueue, build>>
    /\ UNCHANGED consumerVars
    /\ UNCHANGED ghostVars

(* ----------------------- ResetPluginIfRequired ------------------------ *)

\* Where the caller continues after ResetPluginIfRequired() returns:
\* line 100 in CountEndpoints, line 140 in DequeueIncomingData.
AfterReset == IF op = "CountEndpoints" THEN "c_ret" ELSE "d_empty"

\* The loop condition written i <= deviceCount: one iteration too many.
AfterOpen_OneMore(next) == IF next <= deviceCount THEN "r_open" ELSE AfterReset

\* Line 79: the loop goes on while i < deviceCount, then the function returns.
AfterOpen(next) == IF next < deviceCount THEN "r_open" ELSE AfterReset

\* The early return left out: every call resets.
ResetRequired_Always(count) == TRUE

\* Line 66: the reset is skipped when deviceCount == handles.size().
ResetRequired(count) == count # Len(handles)

\* Lines 65-66: int deviceCount = midiInGetNumDevs(); compare and return early.
ResetRead ==
    /\ pc = "r_count"
    /\ deviceCount' = midiInGetNumDevs
    /\ IF ResetRequired(midiInGetNumDevs)
       THEN /\ pc' = IF handles = <<>> THEN "r_resize" ELSE "r_close"
            /\ i' = 1
            /\ refreshed' = TRUE
            /\ prevIds' = { ConvertHandle(h) : h \in Range(handles) }
            /\ opened' = {}
            /\ replugged' = FALSE
       ELSE /\ pc' = AfterReset
            /\ UNCHANGED <<i, refreshed, prevIds, opened, replugged>>
    /\ UNCHANGED <<numDevs, sessions, cb, handles, messageQueue, messageQueueLock, build>>
    /\ UNCHANGED <<op, arg, ret, m>>
    /\ UNCHANGED <<pushCount, delivered, base, staleTags, dropped, quiet>>

\* The close loop without its midiInClose: the sessions stay open.
ResetClose_Skipped ==
    /\ pc = "r_close"
    /\ i' = i + 1
    /\ pc' = IF i = Len(handles) THEN "r_resize" ELSE "r_close"
    /\ UNCHANGED <<numDevs, sessions, cb, handles, messageQueue, messageQueueLock, build>>
    /\ UNCHANGED <<op, arg, ret, deviceCount, m>>
    /\ UNCHANGED ghostVars

\* Lines 69-71, one iteration: midiInClose(handle).  The platform returns from
\* the close only when no callback of that session is running, and starts none
\* afterwards; closing a value that is no open session fails and is ignored.
ResetClose ==
    /\ pc = "r_close"
    /\ LET h == handles[i] IN
         IF h \in OpenHandles
         THEN /\ \A c \in cb : c.h # h
              /\ sessions' = { s \in sessions : s.h # h }
              /\ staleTags' = staleTags \cup
                   { messageQueue[k].tag : k \in { j \in 1 .. Len(messageQueue) :
                                                    messageQueue[j].from = h } }
         ELSE UNCHANGED <<sessions, staleTags>>
    /\ i' = i + 1
    /\ pc' = IF i = Len(handles) THEN "r_resize" ELSE "r_close"
    /\ UNCHANGED <<numDevs, cb, handles, messageQueue, messageQueueLock, build>>
    /\ UNCHANGED <<op, arg, ret, deviceCount, m>>
    /\ UNCHANGED <<pushCount, delivered, base, refreshed, dropped, quiet, prevIds, opened, replugged>>

\* handles.resize(0) left out: the vector keeps its entries.
ResizeToZero_Forgotten(v) == v

\* Line 72: the vector after resize(0).
ResizeToZero(v) == <<>>

\* Line 72: handles.resize(0)
ResetResize ==
    /\ pc = "r_resize"
    /\ handles' = ResizeToZero(handles)
    /\ pc' = "r_clear"
    /\ UNCHANGED <<numDevs, sessions, cb, messageQueue, messageQueueLock, build>>
    /\ UNCHANGED <<op, arg, ret, deviceCount, i, m>>
    /\ UNCHANGED ghostVars

\* The swap left out: the queue keeps its events.
SwapWithEmpty_Forgotten(q) == q

\* Lines 75-76: the queue after std::swap(messageQueue, emptyQueue).
SwapWithEmpty(q) == <<>>

\* Lines 75-76: std::swap(messageQueue, emptyQueue), made without the lock.
ResetClear ==
    /\ pc = "r_clear"
    /\ messageQueue' = SwapWithEmpty(messageQueue)
    /\ base' = pushCount
    /\ delivered' = <<>>
    /\ dropped' = Len(messageQueue) - Len(messageQueue')
    /\ i' = 0
    /\ pc' = AfterOpen(0)
    /\ UNCHANGED <<numDevs, sessions, cb, handles, messageQueueLock, build>>
    /\ UNCHANGED <<op, arg, ret, deviceCount, m>>
    /\ staleTags' = staleTags \cap Range(Tags(messageQueue'))
    /\ UNCHANGED <<pushCount, refreshed, quiet, prevIds, opened, replugged>>

\* midiInOpen(&handle, slot, ...) succeeds for a plugged slot while the
\* platform has a handle value to give; it may reuse the value of a closed one.
CanOpen(slot) == slot < numDevs /\ HandleValues \ OpenHandles # {}

\* Lines 79-88, one iteration: midiInOpen, assert, midiInStart, assert,
\* handles.push_back(handle).  When the open fails, a build with assert()
\* compiled in aborts; a build with NDEBUG starts the uninitialised handle
\* (which fails, or restarts a running session) and registers it.  The build
\* is one or the other: once a failed assert was passed it is an NDEBUG build.
ResetOpen ==
    /\ pc = "r_open"
    /\ \/ /\ CanOpen(i)
          /\ \E h \in HandleValues \ OpenHandles :
               /\ sessions' = sessions \cup
                    { [ h |-> h, slot |-> i ] }
               /\ handles' = Append(handles, h)
               /\ opened' = opened \cup {h}
          /\ i' = i + 1
          /\ pc' = AfterOpen(i + 1)
          /\ UNCHANGED build
       \/ /\ ~CanOpen(i)
          /\ \E h \in UninitializedHandles :
               /\ handles' = Append(handles, h)
               /\ opened' = opened \cup {h}
          /\ i' = i + 1
          /\ pc' = AfterOpen(i + 1)
          /\ build' = "ndebug"
          /\ UNCHANGED sessions
       \/ /\ ~CanOpen(i)
          /\ build = "any"
          /\ pc' = "aborted"
          /\ UNCHANGED <<sessions, handles, opened, i, build>>
    /\ UNCHANGED <<numDevs, cb, messageQueue, messageQueueLock>>
    /\ UNCHANGED <<op, arg, ret, deviceCount, m>>
    /\ UNCHANGED <<pushCount, delivered, base, staleTags, refreshed, dropped, quiet, prevIds, replugged>>

(* ------------------ UnityMIDIReceiver_CountEndpoints ------------------ *)

\* Line 99: the call enters ResetPluginIfRequired().
CallCountEndpoints ==
    /\ pc = "idle"
    /\ op' = "CountEndpoints" /\ arg' = 0 /\ ret' = NoRet
    /\ pc' = "r_count"
    /\ refreshed' = FALSE /\ dropped' = 0 /\ quiet' = FALSE
    /\ UNCHANGED <<numDevs, sessions, cb, handles, messageQueue, messageQueueLock, build>>
    /\ UNCHANGED <<deviceCount, i, m>>
    /\ UNCHANGED <<pushCount, delivered, base, staleTags, prevIds, opened, replugged>>

\* Line 100: return static_cast<int>(handles.size())
CountReturn ==
    /\ pc = "c_ret"
    /\ ret' = Len(handles)
    /\ pc' = "idle" /\ prevIds' = {}
    /\ UNCHANGED <<numDevs, sessions, cb, handles, messageQueue, messageQueueLock, build>>
    /\ UNCHANGED <<op, arg, deviceCount, i, m>>
    /\ UNCHANGED <<pushCount, delivered, base, staleTags, refreshed, dropped, quiet, opened, replugged>>

(* --------------- UnityMIDIReceiver_GetEndpointIDAtIndex --------------- *)

\* Arguments the consumer passes.
Indices == -1 .. MaxDevs

\* The upper bound written index <= handles.size(): reads past the end.
GetEndpointIDAtIndex_OffByOne(index) ==
    IF index >= 0 /\ index <= Len(handles)
    THEN ConvertHandle(VectorAt(handles, index))
    ELSE 0

\* Lines 106-110: the value returned for index.
UnityMIDIReceiver_GetEndpointIDAtIndex(index) ==
    IF index >= 0 /\ index < Len(handles)
    THEN ConvertHandle(VectorAt(handles, index))
    ELSE 0

\* Lines 104-111: the whole call; it touches the handle vector only.
CallGetEndpointIDAtIndex(index) ==
    /\ pc = "idle"
    /\ op' = "GetEndpointIDAtIndex" /\ arg' = index
    /\ ret' = UnityMIDIReceiver_GetEndpointIDAtIndex(index)
    /\ refreshed' = FALSE /\ dropped' = 0 /\ quiet' = FALSE /\ prevIds' = {}
    /\ UNCHANGED <<numDevs, sessions, cb, handles, messageQueue, messageQueueLock, build>>
    /\ UNCHANGED <<pc, deviceCount, i, m>>
    /\ UNCHANGED <<pushCount, delivered, base, staleTags, opened, replugged>>

(* ----------------- UnityMIDIReceiver_GetEndpointName ------------------ *)

\* Endpoint ids the consumer passes.
EndpointIds == { 0 } \cup { ConvertHandle(h) : h \in HandleValues }

\* Lines 117-120: std::find_if over handles; 0 stands for handles.end().
FindHandle(id) ==
    LET hits == { k \in 1 .. Len(handles) : ConvertHandle(handles[k]) = id }
    IN  IF hits = {} THEN 0 ELSE CHOOSE k \in hits : \A j \in hits : k <= j

\* Lines 114-133: the returned name, written as 1 + the slot of the device
\* whose szPname it is; 0 stands for NULL.  midiInGetID fails for a value that
\* is no open session, midiInGetDevCaps for a slot with no device.
UnityMIDIReceiver_GetEndpointName(id) ==
    IF FindHandle(id) = 0 THEN 0
    ELSE LET h == handles[FindHandle(id)] IN
         IF h \notin OpenHandles THEN 0
         ELSE LET deviceID == (CHOOSE s \in sessions : s.h = h).slot IN
              IF deviceID < numDevs THEN deviceID + 1 ELSE 0

CallGetEndpointName(id) ==
    /\ pc = "idle"
    /\ op' = "GetEndpointName" /\ arg' = id
    /\ ret' = UnityMIDIReceiver_GetEndpointName(id)
    /\ refreshed' = FALSE /\ dropped' = 0 /\ quiet' = FALSE /\ prevIds' = {}
    /\ UNCHANGED <<numDevs, sessions, cb, handles, messageQueue, messageQueueLock, build>>
    /\ UNCHANGED <<pc, deviceCount, i, m>>
    /\ UNCHANGED <<pushCount, delivered, base, staleTags, opened, replugged>>

(* --------------- UnityMIDIReceiver_DequeueIncomingData ---------------- *)

\* Line 138: the call enters ResetPluginIfRequired().
CallDequeue ==
    /\ pc = "idle"
    /\ op' = "DequeueIncomingData" /\ arg' = 0 /\ ret' = NoRet
    /\ pc' = "r_count"
    /\ refreshed' = FALSE /\ dropped' = 0
    /\ quiet' = (messageQueue = <<>>)
    /\ UNCHANGED <<numDevs, sessions, cb, handles, messageQueue, messageQueueLock, build>>
    /\ UNCHANGED <<deviceCount, i, m>>
    /\ UNCHANGED <<pushCount, delivered, base, staleTags, prevIds, opened, replugged>>

\* The test left out: the call always goes on to the lock.
EmptyReads_AlwaysFalse == { FALSE }

\* The test written if (!messageQueue.empty()) return 0.
EmptyReads_Negated == { messageQueue # <<>> }

\* Line 140 reads messageQueue.empty() without the lock.  While a callback is
\* inside push() the read races with it and may see the queue before or after
\* the push.
EmptyReads ==
    { messageQueue = <<>> } \cup
    ( IF \E c \in cb : c.pc = "cb_push" THEN { FALSE } ELSE {} )

\* Line 140: if (messageQueue.empty()) return 0
DequeueEmpty ==
    /\ pc = "d_empty"
    /\ \E e \in EmptyReads :
         IF e THEN /\ ret' = Zero64
                   /\ pc' = "idle"
              ELSE /\ pc' = "d_lock"
                   /\ UNCHANGED ret
    /\ UNCHANGED <<numDevs, sessions, cb, handles, messageQueue, messageQueueLock, build>>
    /\ UNCHANGED <<op, arg, deviceCount, i, m>>
    /\ prevIds' = {}
    /\ UNCHANGED <<pushCount, delivered, base, staleTags, refreshed, dropped, quiet, opened, replugged>>

\* Line 142: messageQueueLock.lock()
DequeueLock ==
    /\ pc = "d_lock"
    /\ messageQueueLock = Unlocked
    /\ messageQueueLock' = ConsumerThread
    /\ pc' = "d_back"
    /\ UNCHANGED <<numDevs, sessions, cb, handles, messageQueue, build>>
    /\ UNCHANGED <<op, arg, ret, deviceCount, i, m>>
    /\ UNCHANGED ghostVars

\* Line 143: Message m = messageQueue.back()
DequeueRead ==
    /\ pc = "d_back"
    /\ m' = QueueBack(messageQueue)
    /\ pc' = "d_pop"
    /\ UNCHANGED <<numDevs, sessions, cb, handles, messageQueue, messageQueueLock, build>>
    /\ UNCHANGED <<op, arg, ret, deviceCount, i>>
    /\ UNCHANGED ghostVars

\* Line 144: messageQueue.pop()
DequeuePop ==
    /\ pc = "d_pop"
    /\ messageQueue' = QueuePop(messageQueue)
    /\ pc' = "d_unlock"
    /\ UNCHANGED <<numDevs, sessions, cb, handles, messageQueueLock, build>>
    /\ UNCHANGED <<op, arg, ret, deviceCount, i, m>>
    /\ UNCHANGED ghostVars

\* Lines 145-147: messageQueueLock.unlock(); return m.uint64Value
DequeueReturn ==
    /\ pc = "d_unlock"
    /\ messageQueueLock' = Unlocked
    /\ \E pad \in PadBytes : ret' = Uint64Value(m, pad)
    /\ delivered' = Append(delivered, m.tag)
    /\ m' = GarbageMessage
    /\ pc' = "idle"
    /\ UNCHANGED <<numDevs, sessions, cb, handles, messageQueue, build>>
    /\ UNCHANGED <<op, arg, deviceCount, i>>
    /\ UNCHANGED <<pushCount, base, staleTags, refreshed, dropped, quiet, prevIds, opened, replugged>>

(* --------------------------- specification ---------------------------- *)

Init ==
    /\ numDevs \in 0 .. MaxDevs
    /\ sessions = {}
    /\ cb = {}
    /\ handles = <<>>
    /\ messageQueue = <<>>
    /\ messageQueueLock = Unlocked
    /\ build = "any"
    /\ pc = "idle" /\ op = "none" /\ arg = 0 /\ ret = NoRet
    /\ deviceCount = 0 /\ i = 0 /\ m = GarbageMessage
    /\ pushCount = 0 /\ base = 0 /\ delivered = <<>> /\ staleTags = {}
    /\ refreshed = FALSE /\ dropped = 0 /\ quiet = FALSE
    /\ prevIds = {} /\ opened = {} /\ replugged = FALSE

Next ==
    \/ Plug
    \/ Unplug
    \/ \E s \in sessions, w \in Notifications, p \in RawParams : CallbackEnter(s, w, p)
    \/ \E c \in cb : CallbackLock(c)
    \/ \E c \in cb : CallbackPush(c)
    \/ \E c \in cb : CallbackUnlock(c)
    \/ CallCountEndpoints
    \/ CallDequeue
    \/ \E index \in Indices : CallGetEndpointIDAtIndex(index)
    \/ \E id \in EndpointIds : CallGetEndpointName(id)
    \/ ResetRead
    \/ ResetClose
    \/ ResetResize
    \/ ResetClear
    \/ ResetOpen
    \/ CountReturn
    \/ DequeueEmpty
    \/ DequeueLock
    \/ DequeueRead
    \/ DequeuePop
    \/ DequeueReturn

Spec == Init /\ [][Next]_vars

\* The steps of the consumer thread inside an exported function, and the
\* steps of the callback threads past their entry.
ConsumerStep ==
    \/ ResetRead \/ ResetClose \/ ResetResize \/ ResetClear \/ ResetOpen
    \/ CountReturn
    \/ DequeueEmpty \/ DequeueLock \/ DequeueRead \/ DequeuePop \/ DequeueReturn

CallbackStep ==
    \E c \in cb : CallbackLock(c) \/ CallbackPush(c) \/ CallbackUnlock(c)

\* The scheduler runs every thread that can take a step; the platform and the
\* caller of the exported functions are under no obligation.  (Every consumer
\* step changes pc or i and every callback step changes cb.)
FairSpec == Spec /\ WF_<<pc, i>>(ConsumerStep) /\ WF_cb(CallbackStep)

TypeOK ==
    /\ numDevs \in 0 .. MaxDevs
    /\ pushCount \in 0 .. MaxPush
    /\ Len(messageQueue) <= MaxPush
    /\ Len(handles) <= MaxDevs
    /\ messageQueueLock.owner \in { "none", "consumer", "callback" }

(* ------------------------------ claims -------------------------------- *)

\* Positions of the consumer inside the body of ResetPluginIfRequired, after
\* the count differed (lines 68-88).
Resetting == { "r_close", "r_resize", "r_clear", "r_open" }

NoDuplicates(seq) == \A a, b \in 1 .. Len(seq) : a # b => seq[a] # seq[b]

\* C1: under every interleaving of callback pushes with the one consumer, the
\* events dequeue has returned since the last queue clear, followed by the
\* events still queued, are exactly the pushes made since that clear, in push
\* order: nothing lost, nothing reordered.  (While the consumer stands between
\* its pop and its return the popped event is in neither sequence.)
C1_DeliveredInPushOrder ==
    pc # "d_unlock" =>
        delivered \o Tags(messageQueue) =
            [ k \in 1 .. (pushCount - base) |-> base + k ]

\* C2: the event dequeue is about to return (read at line 143) is the event
\* its pop (line 144) removes, the oldest one queued; and no event is returned
\* twice.
C2_ReturnsTheRemovedOldest ==
    /\ pc = "d_pop" => m = QueueFront(messageQueue)
    /\ NoDuplicates(delivered)

\* C3: a thread that stands at a statement mutating the queue (the push of
\* line 56, the pop of line 144, the clear of lines 75-76) holds
\* messageQueueLock.
C3_MutationsHoldLock ==
    /\ \A c \in cb : c.pc = "cb_push" => messageQueueLock = CallbackThread(c.h)
    /\ pc = "d_pop" => messageQueueLock = ConsumerThread
    /\ pc = "r_clear" => messageQueueLock = ConsumerThread

\* C4: in DequeueIncomingData the emptiness check (line 140) and the read and
\* pop (lines 143-144) are made holding messageQueueLock, so the consumer never
\* reads the queue while a callback is inside its push.
C4_DequeueReadsInsideCriticalSection ==
    pc \in { "d_empty", "d_back", "d_pop" } =>
        /\ messageQueueLock = ConsumerThread
        /\ \A c \in cb : c.pc # "cb_push"

\* C5: once a call's ResetPluginIfRequired has run, no queued event stems from
\* a session that has been closed, and the event a dequeue is about to return
\* stems from no closed session; CountEndpoints reports the device count its
\* refresh read.
C5_StaleEventsNeverReturned ==
    /\ pc \in { "d_empty", "d_lock", "d_back", "d_pop" } =>
         \A k \in 1 .. Len(messageQueue) : messageQueue[k].tag \notin staleTags
    /\ pc \in { "d_pop", "d_unlock" } => m.tag \notin staleTags
    /\ (pc = "idle" /\ op = "CountEndpoints") => ret = deviceCount

\* A dequeue whose refresh discarded queued events has returned an event of a
\* session it opened.
C5_Witness ==
    /\ pc = "idle" /\ op = "DequeueIncomingData"
    /\ refreshed /\ dropped > 0
    /\ ret # Zero64

\* C6: outside the body of a reset the registry size equals the device count
\* the last ResetPluginIfRequired read, and no step outside that body changes
\* the registry.
C6_RegistryIsLastRefresh ==
    /\ [](pc \notin (Resetting \cup { "aborted" }) => Len(handles) = deviceCount)
    /\ [][(pc \notin Resetting /\ pc' \notin Resetting) => handles' = handles]_vars

\* CountEndpoints has returned the size of a rebuilt registry while the
\* platform's device count has already moved on.
C6_Witness ==
    /\ pc = "idle" /\ op = "CountEndpoints" /\ refreshed
    /\ ret = 2 /\ Len(handles) = 2
    /\ numDevs # Len(handles)

\* C7: a ResetPluginIfRequired that reads a device count equal to the registry
\* size returns at once: it closes and opens no session and leaves registry and
\* queue as they are, whatever was unplugged and plugged in between; a
\* CountEndpoints whose refresh did nothing returns the registry size.
C7_EqualCountRefreshIsNoOp ==
    /\ [][(pc = "r_count" /\ pc' # "r_count" /\ numDevs = Len(handles)) =>
            /\ pc' = AfterReset
            /\ handles' = handles
            /\ sessions' = sessions
            /\ messageQueue' = messageQueue
            /\ refreshed' = FALSE]_vars
    /\ []((pc = "idle" /\ op = "CountEndpoints" /\ ~refreshed) =>
            ret = Len(handles))

\* CountEndpoints returned without a reset although a device was unplugged
\* (and one plugged again) since the registry's sessions were opened.
C7_Witness ==
    /\ pc = "idle" /\ op = "CountEndpoints" /\ ~refreshed
    /\ ret > 0 /\ sessions # {}
    /\ replugged

\* C8: a DequeueIncomingData called with the queue empty, during which no push
\* completes, never gets to the read and pop, leaves the queue empty and
\* returns the all-zero value.
C8_EmptyDequeueReturnsSentinel ==
    /\ quiet => messageQueue = <<>> /\ pc \notin { "d_back", "d_pop", "d_unlock" }
    /\ (pc = "idle" /\ op = "DequeueIncomingData" /\ quiet) => ret = Zero64

\* Such a call has returned, with a session open that could have pushed.
C8_Witness ==
    /\ pc = "idle" /\ op = "DequeueIncomingData" /\ quiet
    /\ ret = Zero64
    /\ sessions # {}

\* C9 as stated: when a reset has closed the old sessions and opened
\* deviceCount new ones, the registry size is deviceCount and the lookup of
\* GetEndpointName finds no session for any endpoint id of the old registry.
C9_PreviousIdsUnresolvable ==
    (pc \in { "c_ret", "d_empty" } /\ refreshed) =>
        /\ Len(handles) = deviceCount
        /\ \A id \in prevIds : FindHandle(id) = 0

\* C9 as amended: the registry size is deviceCount, the registry holds only
\* handles this reset registered, and an endpoint id of the old registry is
\* found by the lookup only if a handle this reset registered converts to it.
C9_OnlyReusedIdsResolvable ==
    (pc \in { "c_ret", "d_empty" } /\ refreshed) =>
        /\ Len(handles) = deviceCount
        /\ Range(handles) = opened
        /\ \A id \in prevIds :
             (\A h \in opened : ConvertHandle(h) # id) => FindHandle(id) = 0

\* A reset has replaced a non-empty registry by a non-empty one, and an id of
\* the old one is no longer found.
C9_Witness ==
    /\ pc \in { "c_ret", "d_empty" } /\ refreshed
    /\ handles # <<>>
    /\ \E id \in prevIds : FindHandle(id) = 0

\* C10: GetEndpointIDAtIndex returns 0 for an index below 0 or not below the
\* registry size and the converted handle at that position otherwise, and the
\* call changes neither the registry nor the queue.
C10_IdAtIndexOrZero ==
    /\ []((pc = "idle" /\ op = "GetEndpointIDAtIndex") =>
            ret = IF arg \in 0 .. (Len(handles) - 1)
                  THEN handles[arg + 1].lo
                  ELSE 0)
    /\ [][(op' = "GetEndpointIDAtIndex" /\ <<op, arg, ret>>' # <<op, arg, ret>>) =>
            /\ handles' = handles
            /\ messageQueue' = messageQueue
            /\ sessions' = sessions]_vars

\* The call has returned the id of the second of two registered sessions.
C10_Witness ==
    /\ pc = "idle" /\ op = "GetEndpointIDAtIndex"
    /\ arg = 1 /\ Len(handles) = 2
    /\ ret = handles[2].lo /\ ret # 0


\* Byte k (0 the least significant) of a 64 bit value and of a 32 bit value.
Byte64(v, k) ==
    CASE k \in 0 .. 3 -> ByteOf(v.lo32, k)
      [] k = 4 -> v.b4
      [] k = 5 -> v.b5
      [] k = 6 -> v.b6
      [] k = 7 -> v.b7

Bytes32(x) == [ k \in 0 .. 3 |-> ByteOf(x, k) ]

\* The four fields of a pushed event, the endpoint id by its bytes.
Fields(msg) ==
    [ endpointId |-> Bytes32(msg.source), status |-> msg.status,
      data1 |-> msg.data1, data2 |-> msg.data2 ]

\* Decoding with endpointId in bits 63-32, status in 31-24, data1 in 23-16,
\* data2 in 15-8.
DecodeHighId(v) ==
    [ endpointId |-> [ k \in 0 .. 3 |-> Byte64(v, 4 + k) ],
      status |-> Byte64(v, 3), data1 |-> Byte64(v, 2), data2 |-> Byte64(v, 1) ]

\* Decoding with endpointId in bits 31-0, status in 39-32, data1 in 47-40,
\* data2 in 55-48.
DecodeLowId(v) ==
    [ endpointId |-> [ k \in 0 .. 3 |-> Byte64(v, k) ],
      status |-> Byte64(v, 4), data1 |-> Byte64(v, 5), data2 |-> Byte64(v, 6) ]

\* C11: no assert() that failed is ever passed, and (outside the close loop,
\* whose entries are being closed) every registry entry is the handle of a
\* session that midiInOpen opened for the slot of its position.
C11_FailedOpenAborts ==
    /\ build = "any"
    /\ pc \notin { "r_close", "r_resize" } =>
         \A k \in 1 .. Len(handles) : [ h |-> handles[k], slot |-> k - 1 ] \in sessions

\* C12 as stated: the value DequeueIncomingData is about to return at line 147
\* has a zero low byte and decodes, with the endpoint id taken from bits 63-32,
\* status from 31-24, data1 from 23-16 and data2 from 15-8, to the fields of
\* the event read.
C12_DecodesIdInHighBits ==
    pc = "d_unlock" =>
        \A pad \in PadBytes :
            /\ DecodeHighId(Uint64Value(m, pad)) = Fields(m)
            /\ Byte64(Uint64Value(m, pad), 0) = 0

\* C12 as amended: the value DequeueIncomingData returns decodes, with the
\* endpoint id taken from bits 31-0, status from 39-32, data1 from 47-40 and
\* data2 from 55-48, to the fields of the event read at line 143.
C12_DecodesIdInLowBits ==
    [][(pc = "d_unlock" /\ pc' = "idle") => DecodeLowId(ret') = Fields(m)]_vars

\* A dequeue has returned an event of the session with handle value 2, with
\* the byte no constructor writes set.
C12_Witness ==
    /\ pc = "idle" /\ op = "DequeueIncomingData"
    /\ ret # Zero64
    /\ ret.lo32 = 2 /\ ret.b4 = 144 /\ ret.b7 = 255

\* C13: two different open sessions never have the same endpoint id, and no
\* open session has the id 0.
C13_IdsInjective ==
    /\ \A s1, s2 \in sessions :
         s1.h # s2.h => ConvertHandle(s1.h) # ConvertHandle(s2.h)
    /\ \A s \in sessions : ConvertHandle(s.h) # 0


\* C14: two queued events of the same session stand in the queue in the order
\* of the callback invocations that built them.
C14_SessionOrderKept ==
    \A a, b \in 1 .. Len(messageQueue) :
        (a < b /\ messageQueue[a].from = messageQueue[b].from) =>
            messageQueue[a].inv < messageQueue[b].inv

\* Two events of one session are queued.
C14_Witness ==
    /\ Len(messageQueue) = 2
    /\ messageQueue[1].from = messageQueue[2].from
    /\ messageQueue[1].inv = 1 /\ messageQueue[2].inv = 2

\* C15: messageQueueLock is held by the consumer only from line 142 to line
\* 145 (never inside ResetPluginIfRequired, where the platform is called) and
\* by a callback only from line 55 to line 57; under fair scheduling a held
\* lock is released, every started callback returns and every call of an
\* exported function returns, unless a failed assert ends the process.
C15_LockReleasedCallsReturn ==
    /\ [](messageQueueLock.owner = "consumer" =>
            pc \in { "d_back", "d_pop", "d_unlock" })
    /\ [](messageQueueLock.owner = "callback" =>
            \E c \in cb : /\ c.h = messageQueueLock.h
                          /\ c.pc \in { "cb_push", "cb_unlock" })
    /\ (messageQueueLock # Unlocked) ~> (messageQueueLock = Unlocked \/ pc = "aborted")
    /\ \A n \in 1 .. MaxPush :
         (\E c \in cb : c.inv = n) ~> ((\A c \in cb : c.inv # n) \/ pc = "aborted")
    /\ (pc # "idle") ~> (pc \in { "idle", "aborted" })

\* The consumer waits at line 142 for the lock a callback holds.
C15_Witness ==
    /\ pc = "d_lock"
    /\ messageQueueLock.owner = "callback"

\* C16: only MIM_DATA invocations get past line 48; the step in which a
\* callback passes line 56 appends one event to the queue, with source the
\* converted handle and status, data1, data2 the bytes 0, 1, 2 of dwParam1;
\* no other step of a callback changes the queue and the queue grows by no
\* other step.
C16_CallbackPushesOneEvent ==
    /\ [](\A c \in cb : c.wMsg = MIM_DATA)
    /\ [][\A c \in cb : (c.pc = "cb_push" /\ c \notin cb') =>
            /\ Len(messageQueue') = Len(messageQueue) + 1
            /\ SubSeq(messageQueue', 1, Len(messageQueue)) = messageQueue
            /\ LET e == messageQueue'[Len(messageQueue')] IN
                 /\ e.source = ConvertHandle(c.h)
                 /\ e.status = c.dwParam1 % 256
                 /\ e.data1 = (c.dwParam1 \div 256) % 256
                 /\ e.data2 = (c.dwParam1 \div 65536) % 256]_vars
    /\ [][\A c \in cb : (c.pc # "cb_push" /\ c \notin cb') =>
            messageQueue' = messageQueue]_vars
    /\ [][Len(messageQueue') > Len(messageQueue) =>
            \E c \in cb : c.pc = "cb_push" /\ c \notin cb']_vars

\* A callback of the session with handle value 2 has pushed its event and is
\* about to unlock.
C16_Witness ==
    /\ \E c \in cb : c.pc = "cb_unlock" /\ c.h.lo = 2
    /\ messageQueue # <<>>
    /\ LET e == messageQueue[Len(messageQueue)] IN
         e.source = 2 /\ e.status = 144 /\ e.data1 = 60 /\ e.data2 = 127

\* C17: when DequeueIncomingData reads the back (line 143) or pops (line 144)
\* the queue is not empty.
C17_NeverReadsEmptyQueue ==
    pc \in { "d_back", "d_pop" } => messageQueue # <<>>

\* The consumer is about to pop the only queued event, having passed the
\* unlocked check while another callback is in flight.
C17_Witness ==
    /\ pc = "d_pop" /\ Len(messageQueue) = 1
    /\ cb # {}

\* C18: when the reset clears the queue (lines 75-76) every session has been
\* closed and no callback is in flight, and no session is open between the
\* close loop and the open loop.
C18_ClearNeverOverlapsPush ==
    /\ pc = "r_clear" => cb = {}
    /\ pc \in { "r_resize", "r_clear" } => sessions = {}

\* The reset is about to clear a queue that holds events of the sessions it
\* has closed.
C18_Witness ==
    /\ pc = "r_clear"
    /\ messageQueue # <<>>
    /\ prevIds # {}

\* C19: whenever no exported function is running, the handles of the sessions
\* open at the platform are exactly the entries of the registry, each entry
\* once.
C19_RegistryIsOpenSessions ==
    pc = "idle" =>
        /\ OpenHandles = Range(handles)
        /\ Cardinality(sessions) = Len(handles)
        /\ NoDuplicates(handles)

====
